---- MODULE Spec2Model ----
(***************************************************************************)
(* Graph transformation utilities of python/dgl/transform.py.              *)
(*                                                                         *)
(* A DGLGraph is modelled by its node count and its edge list in edge-ID   *)
(* order (edge i is edges[i+1], a pair <<src, dst>>), together with the    *)
(* names of the node and edge frames it refers to.  Node IDs are 0..n-1.   *)
(*                                                                         *)
(* Spec         : the transforms that take one DGLGraph (khop_graph,       *)
(*                reverse, to_bidirected, add_self_loop, remove_self_loop).*)
(* SimpleSpec   : to_simple on a DGLHeteroGraph.                           *)
(* SubgraphSpec : in_subgraph and out_subgraph on a DGLHeteroGraph.        *)
(* CompactSpec  : compact_graphs on a list of DGLHeteroGraphs.             *)
(***************************************************************************)
EXTENDS Integers, Sequences, FiniteSets

VARIABLES
    g,        \* the DGLGraph the caller built and passes in
    op,       \* the transform called last ("none" while g is being built)
    args,     \* the arguments of that call
    ret,      \* what the call returned
    hgs,      \* the DGLHeteroGraphs the caller built, in list order
    hop,      \* the heterograph transform called last
    hargs,    \* the arguments of that call
    hret,     \* what the call returned
    frames    \* the feature tables of the DGLGraphs: frame name -> rows, columns

vars == <<g, op, args, ret, hgs, hop, hargs, hret, frames>>

\* Bounds of the DGLGraph model.
NumNodes == 2
MaxEdges == 3
MaxK == 3

------------------------------------------------------------------------------
(* Sequence helpers.                                                       *)

RECURSIVE SumTo(_, _)
\* f[0] + ... + f[m-1]
SumTo(f, m) == IF m = 0 THEN 0 ELSE f[m - 1] + SumTo(f, m - 1)

RECURSIVE Repeat(_, _)
\* np.repeat of one element: m copies of x
Repeat(x, m) == IF m = 0 THEN <<>> ELSE <<x>> \o Repeat(x, m - 1)

RECURSIVE Concat(_, _)
\* f[0] \o f[1] \o ... \o f[m-1]
Concat(f, m) == IF m = 0 THEN <<>> ELSE Concat(f, m - 1) \o f[m - 1]

\* Number of positions of s that hold x.
Count(s, x) == Cardinality({i \in DOMAIN s : s[i] = x})

------------------------------------------------------------------------------
(* DGLGraph.                                                               *)

\* DGLGraph(multigraph=...): an empty mutable graph with frames of its own, not
\* a batch.  The multigraph flag is "True", "False" or "None".
DGLGraph(multigraph) ==
    [num_nodes |-> 0, edges |-> <<>>, multigraph |-> multigraph, readonly |-> FALSE,
     node_frame |-> "new.ndata", edge_frame |-> "new.edata",
     batch_num_nodes |-> "None", batch_num_edges |-> "None"]

\* DGLGraph()
NewDGLGraph == DGLGraph("None")

\* g.add_nodes(num)
add_nodes(gr, num) == [gr EXCEPT !.num_nodes = @ + num]

\* g.add_edges(u, v) with the pairs zipped: appended in order, so that the new
\* edges take the next edge IDs.
add_edges(gr, uv) == [gr EXCEPT !.edges = @ \o uv]

\* g.all_edges(order='eid'): the (src, dst) pairs in edge-ID order.
all_edges(gr) == gr.edges

\* from_coo(num_nodes, src, dst, is_multigraph, readonly) wrapped by DGLGraph:
\* edge i runs from src[i] to dst[i].
from_coo(n, row, col, is_multigraph, readonly) ==
    [num_nodes |-> n,
     edges |-> [i \in DOMAIN row |-> <<row[i], col[i]>>],
     multigraph |-> is_multigraph, readonly |-> readonly,
     node_frame |-> "new.ndata", edge_frame |-> "new.edata",
     batch_num_nodes |-> "None", batch_num_edges |-> "None"]

NodesOf(gr) == 0 .. (gr.num_nodes - 1)

\* A frame without columns, and frame[key] = col.
EmptyFrame == [key \in {} |-> <<>>]
SetCol(frame, key, col) ==
    [k \in (DOMAIN frame) \cup {key} |-> IF k = key THEN col ELSE frame[k]]

\* Frame(num_rows=n): a feature table of n rows without columns.
Frame(num_rows) == [num_rows |-> num_rows, cols |-> EmptyFrame]

\* The frame named f after add_rows(num): every column is extended by num
\* rows of the initializer's zeros.
add_rows(fr, f, num) ==
    [fr EXCEPT ![f] = [num_rows |-> @.num_rows + num,
                       cols |-> [k \in DOMAIN @.cols |-> @.cols[k] \o Repeat(0, num)]]]

\* The names under which the frames of the next new DGLGraph are kept.
NewFrameNames(fr) ==
    IF "new.ndata" \in DOMAIN fr THEN <<"new2.ndata", "new2.edata">>
    ELSE <<"new.ndata", "new.edata">>

\* A graph made by DGLGraph(...), add_nodes and add_edges inside a transform,
\* with the frames it created and grew on the way: as many rows as it has
\* nodes and edges.  The frames stay in use unless the transform replaced them
\* by shared ones.
Allocate(fr, new_g) ==
    LET names == NewFrameNames(fr)
    IN  [g |-> [new_g EXCEPT !.node_frame = IF @ = "new.ndata" THEN names[1] ELSE @,
                             !.edge_frame = IF @ = "new.edata" THEN names[2] ELSE @],
         frames |-> [f \in (DOMAIN fr) \cup {names[1], names[2]} |->
                        IF f = names[1] THEN Frame(new_g.num_nodes)
                        ELSE IF f = names[2] THEN Frame(Len(new_g.edges))
                        ELSE fr[f]]]

------------------------------------------------------------------------------
(* khop_graph.                                                             *)

\* g.adjacency_matrix_scipy(return_edge_ids=False): a row is the destination and
\* a column the source; every stored entry is 1 and parallel edges are stored
\* once each, so that entry (i, j) sums to the number of edges j -> i.
adjacency_matrix_scipy(gr) ==
    [i \in NodesOf(gr) |-> [j \in NodesOf(gr) |-> Count(gr.edges, <<j, i>>)]]

\* scipy.sparse.eye(n)
Eye(n) == [i \in 0 .. (n - 1) |-> [j \in 0 .. (n - 1) |-> IF i = j THEN 1 ELSE 0]]

\* The sparse matrix product A * B of two n x n matrices.
MatMul(A, B, n) ==
    [i \in 0 .. (n - 1) |->
        [j \in 0 .. (n - 1) |-> SumTo([l \in 0 .. (n - 1) |-> A[i][l] * B[l][j]], n)]]

RECURSIVE MatPow(_, _, _)
\* A ** k of scipy.sparse: the identity for k = 0, A for k = 1, and repeated
\* squaring otherwise.  tmp, the power k \div 2, is bound to its value, which
\* is computed once.
MatPow(A, k, n) ==
    IF k = 0 THEN Eye(n)
    ELSE IF k = 1 THEN A
    ELSE CHOOSE P \in {IF k % 2 = 1 THEN MatMul(MatMul(A, tmp, n), tmp, n)
                       ELSE MatMul(tmp, tmp, n) :
                       tmp \in {M \in {MatPow(A, k \div 2, n)} : M = M}} : TRUE

\* adj_k.tocoo() followed by np.repeat(adj_k.row, data) and
\* np.repeat(adj_k.col, data): every entry (i, j) of value m gives m
\* consecutive <<row, col>> pairs; the entries are taken row by row.
CooRepeat(M, n) ==
    Concat([i \in 0 .. (n - 1) |->
               Concat([j \in 0 .. (n - 1) |-> Repeat(<<i, j>>, M[i][j])], n)], n)

khop_graph(gr, k) ==
    LET n == gr.num_nodes
        adj_k == MatPow(adjacency_matrix_scipy(gr), k, n)
        rc == CooRepeat(adj_k, n)
        row == [i \in DOMAIN rc |-> rc[i][1]]
        col == [i \in DOMAIN rc |-> rc[i][2]]
    IN  from_coo(n, row, col, "True", TRUE)

------------------------------------------------------------------------------
(* reverse.                                                                *)

\* reverse with the endpoints passed to add_edges in their original order.
reverse_unswapped(gr, share_ndata, share_edata) ==
    LET g0 == add_nodes(DGLGraph(gr.multigraph), gr.num_nodes)
        ga == add_edges(g0, all_edges(gr))
        g1 == [ga EXCEPT !.batch_num_nodes = gr.batch_num_nodes,
                         !.batch_num_edges = gr.batch_num_edges]
        g2 == IF share_ndata THEN [g1 EXCEPT !.node_frame = gr.node_frame] ELSE g1
    IN  IF share_edata THEN [g2 EXCEPT !.edge_frame = gr.edge_frame] ELSE g2

\* reverse that hands out the frames of g whatever the share flags say.
reverse_sharing_all(gr, share_ndata, share_edata) ==
    LET g0 == add_nodes(DGLGraph(gr.multigraph), gr.num_nodes)
        g_edges == all_edges(gr)
        ga == add_edges(g0, [i \in DOMAIN g_edges |-> <<g_edges[i][2], g_edges[i][1]>>])
    IN  [ga EXCEPT !.batch_num_nodes = gr.batch_num_nodes,
                   !.batch_num_edges = gr.batch_num_edges,
                   !.node_frame = gr.node_frame,
                   !.edge_frame = gr.edge_frame]

reverse(gr, share_ndata, share_edata) ==
    LET g0 == add_nodes(DGLGraph(gr.multigraph), gr.num_nodes)
        g_edges == all_edges(gr)
        ga == add_edges(g0, [i \in DOMAIN g_edges |-> <<g_edges[i][2], g_edges[i][1]>>])
        g1 == [ga EXCEPT !.batch_num_nodes = gr.batch_num_nodes,
                         !.batch_num_edges = gr.batch_num_edges]
        g2 == IF share_ndata THEN [g1 EXCEPT !.node_frame = gr.node_frame] ELSE g1
    IN  IF share_edata THEN [g2 EXCEPT !.edge_frame = gr.edge_frame] ELSE g2

------------------------------------------------------------------------------
(* add_self_loop / remove_self_loop.                                       *)

\* src != dst, the boolean mask non_self_edges_idx; indexing by it keeps the
\* selected edges in their order.
non_self_edge(e) == e[1] # e[2]

\* add_self_loop that keeps the self-loops of g where they are and appends one
\* only for the nodes that have none.
add_self_loop_keeping(gr) ==
    LET new_g == add_nodes(NewDGLGraph, gr.num_nodes)
        g1 == add_edges(new_g, all_edges(gr))
        missing(e) == Count(gr.edges, e) = 0
    IN  add_edges(g1, SelectSeq([i \in 1 .. gr.num_nodes |-> <<i - 1, i - 1>>], missing))

add_self_loop(gr) ==
    LET new_g == add_nodes(NewDGLGraph, gr.num_nodes)
        sd == all_edges(gr)
        g1 == add_edges(new_g, SelectSeq(sd, non_self_edge))
    IN  add_edges(g1, [i \in 1 .. gr.num_nodes |-> <<i - 1, i - 1>>])

\* remove_self_loop with the mask inverted: src == dst is kept.
remove_self_loop_inverted(gr) ==
    LET new_g == add_nodes(NewDGLGraph, gr.num_nodes)
        self_edge(e) == e[1] = e[2]
    IN  add_edges(new_g, SelectSeq(all_edges(gr), self_edge))

remove_self_loop(gr) ==
    LET new_g == add_nodes(NewDGLGraph, gr.num_nodes)
        sd == all_edges(gr)
    IN  add_edges(new_g, SelectSeq(sd, non_self_edge))

------------------------------------------------------------------------------
(* to_bidirected.                                                          *)

Max(a, b) == IF a >= b THEN a ELSE b

\* For every destination u and every
\* source v, max(#(v -> u), #(u -> v)) edges v -> u; a readonly graph.
_CAPI_DGLToBidirectedImmutableGraph(gr) ==
    LET n == gr.num_nodes
        c(u, v) == Count(gr.edges, <<u, v>>)
        es == Concat([u \in 0 .. (n - 1) |->
                  Concat([v \in 0 .. (n - 1) |->
                      Repeat(<<v, u>>, Max(c(v, u), c(u, v)))], n)], n)
    IN  [num_nodes |-> n, edges |-> es, multigraph |-> "None", readonly |-> TRUE,
         node_frame |-> "new.ndata", edge_frame |-> "new.edata",
         batch_num_nodes |-> "None", batch_num_edges |-> "None"]

\* For every unordered pair u <= v with
\* m = max(#(u -> v), #(v -> u)) > 0, m edges u -> v and, when u != v, m
\* edges v -> u; a mutable graph.
_CAPI_DGLToBidirectedMutableGraph(gr) ==
    LET n == gr.num_nodes
        c(u, v) == Count(gr.edges, <<u, v>>)
        both(u, v) ==
            IF v < u THEN <<>>
            ELSE Repeat(<<u, v>>, Max(c(u, v), c(v, u)))
                 \o (IF u # v THEN Repeat(<<v, u>>, Max(c(u, v), c(v, u))) ELSE <<>>)
        es == Concat([u \in 0 .. (n - 1) |->
                  Concat([v \in 0 .. (n - 1) |-> both(u, v)], n)], n)
    IN  [num_nodes |-> n, edges |-> es, multigraph |-> "None", readonly |-> FALSE,
         node_frame |-> "new.ndata", edge_frame |-> "new.edata",
         batch_num_nodes |-> "None", batch_num_edges |-> "None"]

\* to_bidirected whose readonly=False branch wraps the index of g unchanged.
to_bidirected_passthrough(gr, readonly) ==
    IF readonly THEN _CAPI_DGLToBidirectedImmutableGraph(gr)
    ELSE [gr EXCEPT !.multigraph = "None", !.readonly = FALSE,
                    !.node_frame = "new.ndata", !.edge_frame = "new.edata"]

to_bidirected(gr, readonly) ==
    IF readonly THEN _CAPI_DGLToBidirectedImmutableGraph(gr)
    ELSE _CAPI_DGLToBidirectedMutableGraph(gr)

------------------------------------------------------------------------------
(* The caller: builds a DGLGraph, then calls a transform on it.            *)

None == "None"

\* No heterograph is involved in Spec.
NoHetero == hgs = <<>> /\ hop = "none" /\ hargs = None /\ hret = None

Init ==
    /\ \E n \in 0 .. NumNodes :
          g = [num_nodes |-> n, edges |-> <<>>, multigraph |-> "True", readonly |-> FALSE,
               node_frame |-> "g.ndata", edge_frame |-> "g.edata",
               batch_num_nodes |-> "None", batch_num_edges |-> "None"]
    /\ frames = [f \in {"g.ndata", "g.edata"} |->
                    IF f = "g.ndata" THEN Frame(g.num_nodes) ELSE Frame(0)]
    /\ op = "none"
    /\ args = None
    /\ ret = None
    /\ NoHetero

\* g.add_edges(u, v) by the caller, before any transform is called.
AddEdge ==
    /\ op = "none"
    /\ Len(g.edges) < MaxEdges
    /\ \E u \in NodesOf(g), v \in NodesOf(g) : g' = add_edges(g, <<(<<u, v>>)>>)
    /\ frames' = add_rows(frames, g.edge_frame, 1)
    /\ UNCHANGED <<op, args, ret, hgs, hop, hargs, hret>>

KhopGraph ==
    /\ op = "none"
    /\ \E k \in 0 .. MaxK :
          /\ args' = [g |-> g, k |-> k]
          /\ ret' = Allocate(frames, khop_graph(g, k)).g
          /\ frames' = Allocate(frames, khop_graph(g, k)).frames
    /\ op' = "khop_graph"
    /\ UNCHANGED <<g, hgs, hop, hargs, hret>>

Reverse ==
    /\ op = "none"
    /\ \E share_ndata \in BOOLEAN, share_edata \in BOOLEAN :
          /\ args' = [g |-> g, share_ndata |-> share_ndata, share_edata |-> share_edata]
          /\ ret' = Allocate(frames, reverse(g, share_ndata, share_edata)).g
          /\ frames' = Allocate(frames, reverse(g, share_ndata, share_edata)).frames
    /\ op' = "reverse"
    /\ UNCHANGED <<g, hgs, hop, hargs, hret>>

ToBidirected ==
    /\ op = "none"
    /\ \E readonly \in BOOLEAN :
          /\ args' = [g |-> g, readonly |-> readonly]
          /\ ret' = Allocate(frames, to_bidirected(g, readonly)).g
          /\ frames' = Allocate(frames, to_bidirected(g, readonly)).frames
    /\ op' = "to_bidirected"
    /\ UNCHANGED <<g, hgs, hop, hargs, hret>>

AddSelfLoop ==
    /\ op = "none"
    /\ args' = [g |-> g]
    /\ ret' = Allocate(frames, add_self_loop(g)).g
    /\ frames' = Allocate(frames, add_self_loop(g)).frames
    /\ op' = "add_self_loop"
    /\ UNCHANGED <<g, hgs, hop, hargs, hret>>

\* remove_self_loop(g), or remove_self_loop of the graph add_self_loop returned.
RemoveSelfLoop ==
    /\ \/ /\ op = "none"
          /\ args' = [g |-> g]
          /\ ret' = Allocate(frames, remove_self_loop(g)).g
          /\ frames' = Allocate(frames, remove_self_loop(g)).frames
          /\ op' = "remove_self_loop"
       \/ /\ op = "add_self_loop"
          /\ args' = [g |-> ret]
          /\ ret' = Allocate(frames, remove_self_loop(ret)).g
          /\ frames' = Allocate(frames, remove_self_loop(ret)).frames
          /\ op' = "add_self_loop;remove_self_loop"
    /\ UNCHANGED <<g, hgs, hop, hargs, hret>>

Next ==
    \/ AddEdge
    \/ KhopGraph
    \/ Reverse
    \/ ToBidirected
    \/ AddSelfLoop
    \/ RemoveSelfLoop

Spec == Init /\ [][Next]_vars

------------------------------------------------------------------------------
(* DGLHeteroGraph.                                                         *)
(*                                                                         *)
(* A heterograph has its node types in order, a node count per node type,  *)
(* its canonical edge types (srctype, etype, dsttype) in order, one edge   *)
(* list in edge-ID order per edge type, and one feature frame per node     *)
(* type and per edge type.  Node and edge IDs are 0-based as in the        *)
(* program; edge ID i of a type is position i + 1 of its list.             *)

\* Bounds of the heterograph model: nodes per node type, edges of the graph
\* given to to_simple, edges of the graphs given to the other transforms.
HNumNodes == 2
MaxSimpleEdges == 3
MaxHEdges == 2

\* The graphs of one compact_graphs call: g and g2 of its docstring.
MaxGraphs == 2

NTypes == <<"user", "game">>
CanonicalETypes == << <<"user", "plays", "game">>, <<"game", "attracts", "user">> >>

\* Feature names dgl.NID and dgl.EID of base.py.
NID == "_ID"
EID == "_ID"

\* The node type ID of a node type name.
NTypeId(gr, ntype) == CHOOSE t \in DOMAIN gr.ntypes : gr.ntypes[t] = ntype

SrcType(gr, e) == NTypeId(gr, gr.canonical_etypes[e][1])
DstType(gr, e) == NTypeId(gr, gr.canonical_etypes[e][3])

\* DGLHeteroGraph(index, ntypes, etypes): the graph of an index, without features.
DGLHeteroGraph(index, ntypes, etypes) ==
    [ntypes |-> ntypes,
     canonical_etypes |-> etypes,
     num_nodes |-> index.num_nodes,
     edges |-> index.edges,
     ndata |-> [t \in DOMAIN ntypes |-> EmptyFrame],
     edata |-> [e \in DOMAIN etypes |-> EmptyFrame]]

\* g._graph: the index of a heterograph; meta gives each edge type's source
\* and destination node type IDs.
GraphIndex(gr) ==
    [num_nodes |-> gr.num_nodes,
     edges |-> gr.edges,
     meta |-> [e \in DOMAIN gr.canonical_etypes |-> <<SrcType(gr, e), DstType(gr, e)>>]]

RECURSIVE SortedSeq(_)
\* The elements of a finite set of numbers in increasing order.
SortedSeq(S) ==
    IF S = {} THEN <<>>
    ELSE LET m == CHOOSE x \in S : \A y \in S : x <= y
         IN  <<m>> \o SortedSeq(S \ {m})

\* The elements of a sequence, as a set.
Range(s) == {s[i] : i \in DOMAIN s}

\* The 0-based position of x in the sequence s.
IndexOf(s, x) == (CHOOSE i \in DOMAIN s : s[i] = x) - 1

------------------------------------------------------------------------------
(* to_simple.                                                              *)

\* (src, dst) pairs in lexicographic order.
PairLess(p, q) == p[1] < q[1] \/ (p[1] = q[1] /\ p[2] < q[2])

RECURSIVE SortedPairs(_)
SortedPairs(S) ==
    IF S = {} THEN <<>>
    ELSE LET m == CHOOSE p \in S : \A q \in S : p = q \/ PairLess(p, q)
         IN  <<m>> \o SortedPairs(S \ {m})

\* Per edge type, the distinct (src, dst) pairs in
\* increasing order (the docstring example: (0,1),(1,3),(2,2),(1,3),(1,4),(1,4)
\* gives (0,1),(1,3),(1,4),(2,2)), the number of original edges of each new
\* edge, and for each original edge the ID of its new edge.
_CAPI_DGLToSimpleHetero(index) ==
    LET simple(e) == SortedPairs(Range(index.edges[e]))
    IN  [graph |-> [num_nodes |-> index.num_nodes,
                    edges |-> [e \in DOMAIN index.edges |-> simple(e)],
                    meta |-> index.meta],
         counts |-> [e \in DOMAIN index.edges |->
                        [j \in DOMAIN simple(e) |-> Count(index.edges[e], simple(e)[j])]],
         edge_maps |-> [e \in DOMAIN index.edges |->
                           [i \in DOMAIN index.edges[e] |->
                               IndexOf(simple(e), index.edges[e][i])]]]

\* to_simple that stores the edge maps under return_counts and the counts under
\* writeback_mapping.
to_simple_swapped(gr, return_counts, writeback_mapping) ==
    LET r == _CAPI_DGLToSimpleHetero(GraphIndex(gr))
        sg == DGLHeteroGraph(r.graph, gr.ntypes, gr.canonical_etypes)
    IN  [ret |-> IF return_counts # None
                 THEN [sg EXCEPT !.edata = [e \in DOMAIN @ |->
                                    SetCol(@[e], return_counts, r.edge_maps[e])]]
                 ELSE sg,
         g |-> IF writeback_mapping # None
               THEN [gr EXCEPT !.edata = [e \in DOMAIN @ |->
                                  SetCol(@[e], writeback_mapping, r.counts[e])]]
               ELSE gr]

\* to_simple that wraps the index of g itself instead of the simple index.
to_simple_unsimplified(gr, return_counts, writeback_mapping) ==
    LET r == _CAPI_DGLToSimpleHetero(GraphIndex(gr))
        sg == DGLHeteroGraph(GraphIndex(gr), gr.ntypes, gr.canonical_etypes)
    IN  [ret |-> IF return_counts # None
                 THEN [sg EXCEPT !.edata = [e \in DOMAIN @ |->
                                    SetCol(@[e], return_counts, r.counts[e])]]
                 ELSE sg,
         g |-> IF writeback_mapping # None
               THEN [gr EXCEPT !.edata = [e \in DOMAIN @ |->
                                  SetCol(@[e], writeback_mapping, r.edge_maps[e])]]
               ELSE gr]

\* to_simple that stores the counts in the edge frames of g as well.
to_simple_counts_in_input(gr, return_counts, writeback_mapping) ==
    LET r == _CAPI_DGLToSimpleHetero(GraphIndex(gr))
        simple_graph == DGLHeteroGraph(r.graph, gr.ntypes, gr.canonical_etypes)
        counted(x) == IF return_counts # None
                      THEN [x EXCEPT !.edata = [e \in DOMAIN @ |->
                                         SetCol(@[e], return_counts, r.counts[e])]]
                      ELSE x
    IN  [ret |-> counted(simple_graph),
         g |-> IF writeback_mapping # None
               THEN [counted(gr) EXCEPT !.edata = [e \in DOMAIN @ |->
                                  SetCol(@[e], writeback_mapping, r.edge_maps[e])]]
               ELSE counted(gr)]

\* to_simple(g, return_counts, writeback_mapping): the graph returned, and g
\* after the call (the mapping is written into the edge frames of g).
to_simple(gr, return_counts, writeback_mapping) ==
    LET r == _CAPI_DGLToSimpleHetero(GraphIndex(gr))
        simple_graph == DGLHeteroGraph(r.graph, gr.ntypes, gr.canonical_etypes)
    IN  [ret |-> IF return_counts # None
                 THEN [simple_graph EXCEPT !.edata = [e \in DOMAIN @ |->
                                    SetCol(@[e], return_counts, r.counts[e])]]
                 ELSE simple_graph,
         g |-> IF writeback_mapping # None
               THEN [gr EXCEPT !.edata = [e \in DOMAIN @ |->
                                  SetCol(@[e], writeback_mapping, r.edge_maps[e])]]
               ELSE gr]

------------------------------------------------------------------------------
(* in_subgraph / out_subgraph.                                             *)

\* The 1-based positions of the edges whose endpoint `end` (1: src, 2: dst) is
\* among nodes, in increasing order.
KeptIds(es, nodes, end) == SortedSeq({i \in DOMAIN es : es[i][end] \in nodes})

\* Per edge type the edges whose destination is among the
\* given nodes of the destination type; the node counts are those of g;
\* induced_edges holds the original (0-based) IDs of the kept edges.
_CAPI_DGLInSubgraph(index, nodes_all_types) ==
    LET kept(e) == KeptIds(index.edges[e], nodes_all_types[index.meta[e][2]], 2)
    IN  [graph |-> [num_nodes |-> index.num_nodes,
                    edges |-> [e \in DOMAIN index.edges |->
                                  [j \in DOMAIN kept(e) |-> index.edges[e][kept(e)[j]]]],
                    meta |-> index.meta],
         induced_edges |-> [e \in DOMAIN index.edges |->
                               [j \in DOMAIN kept(e) |-> kept(e)[j] - 1]]]

\* The same as _CAPI_DGLInSubgraph with the source instead of the destination.
_CAPI_DGLOutSubgraph(index, nodes_all_types) ==
    LET kept(e) == KeptIds(index.edges[e], nodes_all_types[index.meta[e][1]], 1)
    IN  [graph |-> [num_nodes |-> index.num_nodes,
                    edges |-> [e \in DOMAIN index.edges |->
                                  [j \in DOMAIN kept(e) |-> index.edges[e][kept(e)[j]]]],
                    meta |-> index.meta],
         induced_edges |-> [e \in DOMAIN index.edges |->
                               [j \in DOMAIN kept(e) |-> kept(e)[j] - 1]]]

\* The list nodes_all_types: for every node type of g in order, the IDs given
\* for it, or an empty array when the dict has no entry for it.
NodesAllTypes(gr, d) ==
    [t \in DOMAIN gr.ntypes |->
        IF gr.ntypes[t] \in DOMAIN d THEN d[gr.ntypes[t]] ELSE {}]

\* The graph of a subgraph index with the induced edge IDs as feature EID.
WithEID(gr, subgidx) ==
    LET r == DGLHeteroGraph(subgidx.graph, gr.ntypes, gr.canonical_etypes)
    IN  [r EXCEPT !.edata = [e \in DOMAIN @ |->
                                SetCol(@[e], EID, subgidx.induced_edges[e])]]

\* in_subgraph(g, nodes).  nodes is a dict (nodes.dict, ids per node type name
\* in nodes.m) or a bare ID tensor (nodes.ids).  DGLError is not a name of the
\* module, so that the raise statement ends in a NameError.
in_subgraph(gr, nodes) ==
    IF ~nodes.dict /\ Len(gr.ntypes) > 1
    THEN [raised |-> "NameError", value |-> None]
    ELSE LET d == IF nodes.dict THEN nodes.m
                  ELSE [nt \in {gr.ntypes[1]} |-> nodes.ids]
         IN  [raised |-> None,
              value |-> WithEID(gr, _CAPI_DGLInSubgraph(GraphIndex(gr), NodesAllTypes(gr, d)))]

\* out_subgraph that calls the in-subgraph routine.
out_subgraph_as_in(gr, nodes) == in_subgraph(gr, nodes)

out_subgraph(gr, nodes) ==
    IF ~nodes.dict /\ Len(gr.ntypes) > 1
    THEN [raised |-> "NameError", value |-> None]
    ELSE LET d == IF nodes.dict THEN nodes.m
                  ELSE [nt \in {gr.ntypes[1]} |-> nodes.ids]
         IN  [raised |-> None,
              value |-> WithEID(gr, _CAPI_DGLOutSubgraph(GraphIndex(gr), NodesAllTypes(gr, d)))]

------------------------------------------------------------------------------
(* compact_graphs.                                                         *)

\* The nodes of node type ID t that are an endpoint of an edge of some graph.
Touched(indexes, t) ==
    UNION {UNION {{ix.edges[e][j][1] : j \in {h \in DOMAIN ix.edges[e] : ix.meta[e][1] = t}}
                  \cup {ix.edges[e][j][2] : j \in {h \in DOMAIN ix.edges[e] : ix.meta[e][2] = t}}
                  : e \in DOMAIN ix.edges}
           : ix \in Range(indexes)}

\* An index re-expressed over the induced nodes: each node renamed to its
\* position in induced_nodes of its type, the edges in their order.
CompactIndex(ix, induced) ==
    [num_nodes |-> [t \in DOMAIN induced |-> Len(induced[t])],
     edges |-> [e \in DOMAIN ix.edges |->
                  [j \in DOMAIN ix.edges[e] |->
                      <<IndexOf(induced[ix.meta[e][1]], ix.edges[e][j][1]),
                        IndexOf(induced[ix.meta[e][2]], ix.edges[e][j][2])>>]],
     meta |-> ix.meta]

\* Every graph of the list re-expressed over the induced nodes.
CompactAll(indexes, induced) ==
    [graphs |-> [i \in DOMAIN indexes |-> CompactIndex(indexes[i], induced)],
     induced_nodes |-> induced]

\* Per node type the nodes that are an endpoint of an edge of some graph or are
\* among the nodes to preserve, in increasing order (induced_nodes); every
\* graph re-expressed over these nodes.
_CAPI_DGLCompactGraphs(indexes, always_preserve_nd) ==
    CompactAll(indexes,
               [t \in DOMAIN always_preserve_nd |->
                   SortedSeq(Touched(indexes, t) \cup always_preserve_nd[t])])

\* The node mapping attached to one new graph, per node type.
AttachNID(ng, ntypes, induced_nodes) ==
    [ng EXCEPT !.ndata = [t \in DOMAIN @ |->
        IF t \in DOMAIN ntypes THEN SetCol(@[t], NID, induced_nodes[t]) ELSE @[t]]]

\* compact_graphs that attaches the mapping to the first returned graph only.
AttachAllNID_first_only(new_graphs, ntypes, induced_nodes) ==
    [i \in DOMAIN new_graphs |->
        IF i = 1 THEN AttachNID(new_graphs[i], ntypes, induced_nodes)
        ELSE new_graphs[i]]

\* for g in new_graphs: for i, ntype in enumerate(graphs[0].ntypes):
\*     g.nodes[ntype].data[NID] = induced_nodes[i]
AttachAllNID(new_graphs, ntypes, induced_nodes) ==
    [i \in DOMAIN new_graphs |-> AttachNID(new_graphs[i], ntypes, induced_nodes)]

\* AlwaysPreserveNd that ignores the dict.
AlwaysPreserveNd_ignored(ntypes, d) == [t \in DOMAIN ntypes |-> {}]

\* The list always_preserve_nd: per node type the IDs to preserve, or an empty
\* array when the dict has no entry for the type.
AlwaysPreserveNd(ntypes, d) ==
    [t \in DOMAIN ntypes |-> IF ntypes[t] \in DOMAIN d THEN d[ntypes[t]] ELSE {}]

\* compact_graphs(graphs, always_preserve).  single: the caller passed one
\* graph instead of a list.  always_preserve.kind is "None", "tensor" (ids) or
\* "dict" (ids per node type name in m).  The message of the first assert is
\* ("...%s and %s" % ntypes, g.ntypes): formatting a list into two %s raises
\* TypeError when the assertion fails.
compact_graphs(graphs, single, always_preserve) ==
    LET ntypes == graphs[1].ntypes
    IN  IF \E i \in DOMAIN graphs : graphs[i].ntypes # ntypes
        THEN [raised |-> "TypeError", value |-> None]
        ELSE IF always_preserve.kind = "tensor" /\ Len(ntypes) > 1
        THEN [raised |-> "ValueError", value |-> None]
        ELSE LET d == IF always_preserve.kind = "None" THEN [nt \in {} |-> {}]
                      ELSE IF always_preserve.kind = "tensor"
                           THEN [nt \in {ntypes[1]} |-> always_preserve.ids]
                           ELSE always_preserve.m
                 r == _CAPI_DGLCompactGraphs([i \in DOMAIN graphs |-> GraphIndex(graphs[i])],
                                    AlwaysPreserveNd(ntypes, d))
                 new_graphs ==
                     AttachAllNID(
                         [i \in DOMAIN graphs |->
                             DGLHeteroGraph(r.graphs[i], graphs[i].ntypes,
                                            graphs[i].canonical_etypes)],
                         ntypes, r.induced_nodes)
             IN  [raised |-> None,
                  value |-> IF single THEN new_graphs[1] ELSE new_graphs]

------------------------------------------------------------------------------
(* The caller of the heterograph transforms: builds one heterograph, or a  *)
(* list of them over the same nodes, then calls a transform.               *)

\* No DGLGraph is involved in the heterograph specifications.
NoDGLGraph == g = None /\ op = "none" /\ args = None /\ ret = None /\ frames = <<>>

\* A heterograph of the two node types without edges or features.
EmptyHeteroGraph ==
    [ntypes |-> NTypes,
     canonical_etypes |-> CanonicalETypes,
     num_nodes |-> [t \in DOMAIN NTypes |-> HNumNodes],
     edges |-> [e \in DOMAIN CanonicalETypes |-> <<>>],
     ndata |-> [t \in DOMAIN NTypes |-> EmptyFrame],
     edata |-> [e \in DOMAIN CanonicalETypes |-> EmptyFrame]]

HInit ==
    /\ hgs = <<EmptyHeteroGraph>>
    /\ hop = "none"
    /\ hargs = None
    /\ hret = None
    /\ NoDGLGraph

RECURSIVE TotalEdges(_)
\* The number of edges of all graphs of a list, over all edge types.
TotalEdges(graphs) ==
    IF graphs = <<>> THEN 0
    ELSE SumTo([e \in 0 .. (Len(graphs[1].edges) - 1) |-> Len(graphs[1].edges[e + 1])],
               Len(graphs[1].edges))
         + TotalEdges(Tail(graphs))

\* The caller adds an edge of some edge type to the graph it is building (the
\* last of the list), while the graphs have fewer than limit edges.
AddHeteroEdge(limit) ==
    /\ hop = "none"
    /\ TotalEdges(hgs) < limit
    /\ LET gr == hgs[Len(hgs)]
       IN  \E e \in DOMAIN gr.canonical_etypes :
           \E u \in 0 .. (gr.num_nodes[SrcType(gr, e)] - 1) :
           \E v \in 0 .. (gr.num_nodes[DstType(gr, e)] - 1) :
               hgs' = [hgs EXCEPT ![Len(hgs)].edges[e] = Append(@, <<u, v>>)]
    /\ UNCHANGED <<hop, hargs, hret, g, op, args, ret, frames>>

AddEdgeSimple == AddHeteroEdge(MaxSimpleEdges)

AddEdgeHetero == AddHeteroEdge(MaxHEdges)

\* The caller starts another graph over the same nodes.
NewGraph ==
    /\ hop = "none"
    /\ Len(hgs) < MaxGraphs
    /\ hgs' = Append(hgs, EmptyHeteroGraph)
    /\ UNCHANGED <<hop, hargs, hret, g, op, args, ret, frames>>

ToSimple ==
    /\ hop = "none"
    /\ Len(hgs) = 1
    /\ \E return_counts \in {None, "count"}, writeback_mapping \in {None, "new_eid"} :
          LET r == to_simple(hgs[1], return_counts, writeback_mapping)
          IN  /\ hargs' = [g |-> hgs[1], return_counts |-> return_counts,
                           writeback_mapping |-> writeback_mapping]
              /\ hret' = [raised |-> None, value |-> r.ret]
              /\ hgs' = <<r.g>>
    /\ hop' = "to_simple"
    /\ UNCHANGED <<g, op, args, ret, frames>>

NodeIds == 0 .. (HNumNodes - 1)

\* The dicts from some node type names to sets of node IDs out of Choices.
TypeDicts(Choices) ==
    UNION {[D -> Choices] : D \in SUBSET Range(NTypes)}

\* The node selections a caller passes: a dict from some node types to node
\* IDs, or a bare ID tensor.
NodeSelections ==
    {[dict |-> TRUE, m |-> m, ids |-> {}] : m \in TypeDicts(SUBSET NodeIds)}
    \cup {[dict |-> FALSE, m |-> EmptyFrame, ids |-> {0}]}

InSubgraph ==
    /\ hop = "none"
    /\ Len(hgs) = 1
    /\ \E nodes \in NodeSelections :
          /\ hargs' = [g |-> hgs[1], nodes |-> nodes]
          /\ hret' = in_subgraph(hgs[1], nodes)
    /\ hop' = "in_subgraph"
    /\ UNCHANGED <<hgs, g, op, args, ret, frames>>

OutSubgraph ==
    /\ hop = "none"
    /\ Len(hgs) = 1
    /\ \E nodes \in NodeSelections :
          /\ hargs' = [g |-> hgs[1], nodes |-> nodes]
          /\ hret' = out_subgraph(hgs[1], nodes)
    /\ hop' = "out_subgraph"
    /\ UNCHANGED <<hgs, g, op, args, ret, frames>>

\* The always_preserve arguments a caller passes: None, a bare ID tensor, an
\* empty dict, or a dict that names one node ID of one node type.
AlwaysPreserveChoices ==
    {[kind |-> "None", m |-> EmptyFrame, ids |-> {}],
     [kind |-> "tensor", m |-> EmptyFrame, ids |-> {0}]}
    \cup {[kind |-> "dict", m |-> m, ids |-> {}] :
             m \in {d \in TypeDicts({{v} : v \in NodeIds}) : Cardinality(DOMAIN d) <= 1}}

CompactGraphs ==
    /\ hop = "none"
    /\ \E single \in {s \in BOOLEAN : s => Len(hgs) = 1},
          always_preserve \in AlwaysPreserveChoices :
          /\ hargs' = [graphs |-> hgs, single |-> single,
                       always_preserve |-> always_preserve]
          /\ hret' = compact_graphs(hgs, single, always_preserve)
    /\ hop' = "compact_graphs"
    /\ UNCHANGED <<hgs, g, op, args, ret, frames>>

SimpleNext == AddEdgeSimple \/ ToSimple

SimpleSpec == HInit /\ [][SimpleNext]_vars

SubgraphNext == AddEdgeHetero \/ InSubgraph \/ OutSubgraph

SubgraphSpec == HInit /\ [][SubgraphNext]_vars

CompactNext == AddEdgeHetero \/ NewGraph \/ CompactGraphs

CompactSpec == HInit /\ [][CompactNext]_vars

------------------------------------------------------------------------------
(* Properties of the DGLGraph transforms.                                  *)

RECURSIVE Walks(_, _, _, _)
\* The number of directed walks of length k from u to v: sequences of k edge
\* IDs, each edge starting where the one before it ends.
Walks(gr, k, u, v) ==
    IF k = 0 THEN (IF u = v THEN 1 ELSE 0)
    ELSE SumTo([i \in 0 .. (Len(gr.edges) - 1) |->
                   IF gr.edges[i + 1][1] = u
                   THEN Walks(gr, k - 1, gr.edges[i + 1][2], v) ELSE 0],
               Len(gr.edges))

\* The edge ID (1-based position) of the j-th edge of gr with src != dst.
NthNonSelf(gr, j) ==
    CHOOSE i \in DOMAIN gr.edges :
        /\ gr.edges[i][1] # gr.edges[i][2]
        /\ Cardinality({h \in 1 .. i : gr.edges[h][1] # gr.edges[h][2]}) = j

NumNonSelf(gr) ==
    Cardinality({i \in DOMAIN gr.edges : gr.edges[i][1] # gr.edges[i][2]})

HasSelfLoop(gr) == \E i \in DOMAIN gr.edges : gr.edges[i][1] = gr.edges[i][2]

\* C1: khop_graph(g, k) has the node count of g, for every ordered pair (u, v)
\* as many parallel edges u -> v as g has directed walks of length k from u to
\* v, and for k = 0 exactly one self-loop per node.
C1_KhopEdgesAreWalks ==
    op = "khop_graph" =>
        /\ ret.num_nodes = args.g.num_nodes
        /\ \A u \in NodesOf(args.g), v \in NodesOf(args.g) :
              Count(ret.edges, <<u, v>>) = Walks(args.g, args.k, u, v)
        /\ args.k = 0 =>
              /\ Len(ret.edges) = args.g.num_nodes
              /\ \A u \in NodesOf(args.g) : Count(ret.edges, <<u, u>>) = 1

\* What khop_graph does instead: the edges u -> v of the result count the walks
\* of length k from v to u.
KhopEdgesAreBackwardWalks ==
    op = "khop_graph" =>
        /\ ret.num_nodes = args.g.num_nodes
        /\ \A u \in NodesOf(args.g), v \in NodesOf(args.g) :
              Count(ret.edges, <<u, v>>) = Walks(args.g, args.k, v, u)

\* C2: reverse(g) has as many nodes and edges as g, and edge i of reverse(g) is
\* (v, u) when edge i of g is (u, v), parallel edges and self-loops included.
C2_ReversePreservesEdgeIds ==
    op = "reverse" =>
        /\ ret.num_nodes = args.g.num_nodes
        /\ Len(ret.edges) = Len(args.g.edges)
        /\ \A i \in DOMAIN args.g.edges :
              /\ ret.edges[i][1] = args.g.edges[i][2]
              /\ ret.edges[i][2] = args.g.edges[i][1]

\* A reversed graph with two parallel edges u -> v, u != v, and a self-loop.
C2_Witness ==
    /\ op = "reverse"
    /\ \E i, j \in DOMAIN args.g.edges :
          /\ i # j
          /\ args.g.edges[i] = args.g.edges[j]
          /\ args.g.edges[i][1] # args.g.edges[i][2]
    /\ HasSelfLoop(args.g)

\* C5: with m edges i -> j and n edges j -> i in g (i != j), to_bidirected(g)
\* has max(m, n) edges i -> j and max(m, n) edges j -> i; a node with m
\* self-loops keeps exactly m; for readonly True and False alike.
C5_BidirectedMultiplicity ==
    op = "to_bidirected" =>
        /\ ret.num_nodes = args.g.num_nodes
        /\ \A i \in NodesOf(args.g), j \in NodesOf(args.g) :
              LET m == Count(args.g.edges, <<i, j>>)
                  n == Count(args.g.edges, <<j, i>>)
              IN  IF i # j
                  THEN /\ Count(ret.edges, <<i, j>>) = Max(m, n)
                       /\ Count(ret.edges, <<j, i>>) = Max(m, n)
                  ELSE Count(ret.edges, <<i, i>>) = m

\* A mutable bidirected graph of a g with two edges i -> j and one edge j -> i.
C5_Witness ==
    /\ op = "to_bidirected"
    /\ ~args.readonly
    /\ \E i \in NodesOf(args.g), j \in NodesOf(args.g) :
          /\ i # j
          /\ Count(args.g.edges, <<i, j>>) = 2
          /\ Count(args.g.edges, <<j, i>>) = 1
          /\ Count(ret.edges, <<j, i>>) = 2

\* C6: add_self_loop(g) has the N nodes of g; its edges are the edges of g with
\* src != dst in their order, then (0,0), ..., (N-1,N-1); so every node has
\* exactly one self-loop and there are (non-self-loop edges of g) + N edges.
C6_AddSelfLoopSequence ==
    op = "add_self_loop" =>
        LET N == args.g.num_nodes
            ns == NumNonSelf(args.g)
        IN  /\ ret.num_nodes = N
            /\ Len(ret.edges) = ns + N
            /\ \A j \in 1 .. ns : ret.edges[j] = args.g.edges[NthNonSelf(args.g, j)]
            /\ \A v \in 0 .. (N - 1) : ret.edges[ns + v + 1] = <<v, v>>
            /\ \A v \in 0 .. (N - 1) : Count(ret.edges, <<v, v>>) = 1

\* add_self_loop of a g that has a self-loop between two other edges.
C6_Witness ==
    /\ op = "add_self_loop"
    /\ Len(args.g.edges) = 3
    /\ args.g.edges[2][1] = args.g.edges[2][2]
    /\ NumNonSelf(args.g) = 2
    /\ Len(ret.edges) = 2 + args.g.num_nodes

\* C7: for g without self-loop, remove_self_loop(add_self_loop(g)) has the node
\* count and the edge sequence of g; and remove_self_loop(g) is the edge
\* sequence of g without the edges that have src = dst, the order kept.
C7_RemoveSelfLoop ==
    /\ (op = "add_self_loop;remove_self_loop" /\ ~HasSelfLoop(g)) =>
          /\ ret.num_nodes = g.num_nodes
          /\ ret.edges = g.edges
    /\ op = "remove_self_loop" =>
          /\ ret.num_nodes = args.g.num_nodes
          /\ Len(ret.edges) = NumNonSelf(args.g)
          /\ \A j \in 1 .. NumNonSelf(args.g) :
                ret.edges[j] = args.g.edges[NthNonSelf(args.g, j)]

\* add_self_loop then remove_self_loop on a g with edges and no self-loop.
C7_Witness ==
    /\ op = "add_self_loop;remove_self_loop"
    /\ ~HasSelfLoop(g)
    /\ Len(g.edges) >= 2
    /\ Len(args.g.edges) = Len(g.edges) + g.num_nodes
    /\ ret.edges = g.edges

------------------------------------------------------------------------------
(* Properties of to_simple.                                                *)

\* The 1-based position of the first edge with endpoints p in es.
FirstOccurrence(es, p) ==
    CHOOSE i \in DOMAIN es : es[i] = p /\ \A h \in 1 .. (i - 1) : es[h] # p

\* The writeback column of edge type e in g after the call.
WritebackMap(e) == hgs[1].edata[e][hargs.writeback_mapping]

\* The count column of edge type e of the returned graph.
CountColumn(e) == hret.value.edata[e][hargs.return_counts]

\* C3: per edge type, to_simple(g) has no two edges with the same (src, dst);
\* the writeback map sends every original edge to a new edge with the same
\* endpoints; two original edges have the same map value exactly when they
\* share (src, dst); count[j] is the number of original edges mapped to new
\* edge j, and the counts sum to the original edge count.
C3_ToSimpleMapAndCounts ==
    hop = "to_simple" =>
        \A e \in DOMAIN hargs.g.canonical_etypes :
            LET old == hargs.g.edges[e]
                new == hret.value.edges[e]
            IN  /\ \A i, j \in DOMAIN new : i # j => new[i] # new[j]
                /\ hargs.writeback_mapping # None =>
                      /\ hargs.writeback_mapping \in DOMAIN hgs[1].edata[e]
                      /\ DOMAIN WritebackMap(e) = DOMAIN old
                      /\ \A i \in DOMAIN old :
                            /\ WritebackMap(e)[i] \in 0 .. (Len(new) - 1)
                            /\ new[WritebackMap(e)[i] + 1] = old[i]
                      /\ \A i, j \in DOMAIN old :
                            (WritebackMap(e)[i] = WritebackMap(e)[j]) <=> (old[i] = old[j])
                /\ hargs.return_counts # None =>
                      /\ hargs.return_counts \in DOMAIN hret.value.edata[e]
                      /\ DOMAIN CountColumn(e) = DOMAIN new
                      /\ \A j \in DOMAIN new : CountColumn(e)[j] = Count(old, new[j])
                      /\ SumTo([j \in 0 .. (Len(new) - 1) |-> CountColumn(e)[j + 1]],
                               Len(new)) = Len(old)
                /\ (hargs.return_counts # None /\ hargs.writeback_mapping # None) =>
                      \A j \in DOMAIN new :
                          CountColumn(e)[j] =
                              Cardinality({i \in DOMAIN old : WritebackMap(e)[i] = j - 1})

\* to_simple with both columns on three edges of one type, two of them parallel.
C3_Witness ==
    /\ hop = "to_simple"
    /\ hargs.return_counts # None
    /\ hargs.writeback_mapping # None
    /\ \E e \in DOMAIN hargs.g.canonical_etypes :
          /\ Len(hargs.g.edges[e]) = 3
          /\ Len(hret.value.edges[e]) = 2
          /\ \E j \in DOMAIN CountColumn(e) : CountColumn(e)[j] = 2
          /\ \E i, j \in 1 .. 3 : WritebackMap(e)[i] # WritebackMap(e)[j]

\* C4: to_simple numbers the coalesced edges in order of first occurrence: for
\* distinct pairs p, q of one edge type the new edge of p has the smaller ID
\* exactly when the first original edge p has the smaller original ID.
C4_FirstOccurrenceOrder ==
    hop = "to_simple" =>
        \A e \in DOMAIN hargs.g.canonical_etypes :
            LET old == hargs.g.edges[e]
                new == hret.value.edges[e]
            IN  \A p \in Range(old), q \in Range(old) :
                    p # q =>
                        /\ p \in Range(new)
                        /\ q \in Range(new)
                        /\ (IndexOf(new, p) < IndexOf(new, q))
                               <=> (FirstOccurrence(old, p) < FirstOccurrence(old, q))

\* C4 as amended: to_simple numbers the coalesced edges in increasing
\* (src, dst) order: the new edge of p has a smaller ID than the new edge of q
\* exactly when p comes before q by src, then by dst.
C4_SortedOrder ==
    hop = "to_simple" =>
        \A e \in DOMAIN hargs.g.canonical_etypes :
            LET old == hargs.g.edges[e]
                new == hret.value.edges[e]
            IN  \A p \in Range(old), q \in Range(old) :
                    p # q =>
                        /\ p \in Range(new)
                        /\ q \in Range(new)
                        /\ (FirstOccurrence(new, p) < FirstOccurrence(new, q))
                               <=> PairLess(p, q)

\* to_simple of edges whose first occurrences are not in (src, dst) order.
C4_Witness ==
    /\ hop = "to_simple"
    /\ \E e \in DOMAIN hargs.g.canonical_etypes :
          \E p \in Range(hargs.g.edges[e]), q \in Range(hargs.g.edges[e]) :
              /\ PairLess(p, q)
              /\ FirstOccurrence(hargs.g.edges[e], q) < FirstOccurrence(hargs.g.edges[e], p)
              /\ IndexOf(hret.value.edges[e], p) < IndexOf(hret.value.edges[e], q)

------------------------------------------------------------------------------
(* Properties of compact_graphs.                                           *)

\* The number of edges of gr, over its edge types, that enter (end = 2) or
\* leave (end = 1) node v of node type ID t.
Degree(gr, t, v, end) ==
    SumTo([e \in 0 .. (Len(gr.edges) - 1) |->
              IF (IF end = 1 THEN SrcType(gr, e + 1) ELSE DstType(gr, e + 1)) = t
              THEN Cardinality({j \in DOMAIN gr.edges[e + 1] : gr.edges[e + 1][j][end] = v})
              ELSE 0],
          Len(gr.edges))

\* The nodes of node type ID t the caller asked to preserve.
Preserved(ap, ntypes, t) ==
    IF ap.kind = "dict" /\ ntypes[t] \in DOMAIN ap.m THEN ap.m[ntypes[t]] ELSE {}

\* The graphs a compact_graphs call returned, as a list.
Compacted == IF hargs.single THEN <<hret.value>> ELSE hret.value

C9_CompactEdgesTranslateBack ==
    (hop = "compact_graphs" /\ hret.raised = None) =>
        \A i \in DOMAIN hargs.graphs :
            LET gr == hargs.graphs[i]
                c == Compacted[i]
            IN  \A e \in DOMAIN gr.canonical_etypes :
                    /\ NID \in DOMAIN c.ndata[SrcType(gr, e)]
                    /\ NID \in DOMAIN c.ndata[DstType(gr, e)]
                    /\ Len(c.edges[e]) = Len(gr.edges[e])
                    /\ \A j \in DOMAIN c.edges[e] :
                          /\ c.edges[e][j][1] \in 0 .. (c.num_nodes[SrcType(gr, e)] - 1)
                          /\ c.edges[e][j][2] \in 0 .. (c.num_nodes[DstType(gr, e)] - 1)
                          /\ gr.edges[e][j] =
                                <<c.ndata[SrcType(gr, e)][NID][c.edges[e][j][1] + 1],
                                  c.ndata[DstType(gr, e)][NID][c.edges[e][j][2] + 1]>>

\* A second graph compacted with an edge whose endpoints both got new IDs.
C9_Witness ==
    /\ hop = "compact_graphs"
    /\ hret.raised = None
    /\ Len(hargs.graphs) = 2
    /\ \E e \in DOMAIN hargs.graphs[2].canonical_etypes :
       \E j \in DOMAIN hargs.graphs[2].edges[e] :
          /\ Compacted[2].edges[e][j][1] # hargs.graphs[2].edges[e][j][1]
          /\ Compacted[2].edges[e][j][2] # hargs.graphs[2].edges[e][j][2]

------------------------------------------------------------------------------
(* Properties of in_subgraph and out_subgraph.                             *)

\* The nodes of node type ID t a selection dict selects.
Selected(nodes, ntypes, t) ==
    IF ntypes[t] \in DOMAIN nodes.m THEN nodes.m[ntypes[t]] ELSE {}

\* C10: in_subgraph keeps per edge type exactly the edges whose destination is
\* a selected node of the destination type, out_subgraph those whose source is
\* a selected node of the source type (a type absent from the dict selects no
\* node); node types, edge types and node counts are those of g; EID lists for
\* each kept edge its ID in g, where it has the same endpoints.
C10_SubgraphEdges ==
    (hop \in {"in_subgraph", "out_subgraph"} /\ hret.raised = None) =>
        LET gr == hargs.g
            sg == hret.value
            end == IF hop = "in_subgraph" THEN 2 ELSE 1
            endtype(e) == IF hop = "in_subgraph" THEN DstType(gr, e) ELSE SrcType(gr, e)
        IN  /\ sg.ntypes = gr.ntypes
            /\ sg.canonical_etypes = gr.canonical_etypes
            /\ sg.num_nodes = gr.num_nodes
            /\ \A e \in DOMAIN gr.canonical_etypes :
                  /\ EID \in DOMAIN sg.edata[e]
                  /\ LET eid == sg.edata[e][EID]
                     IN  /\ Len(eid) = Len(sg.edges[e])
                         /\ \A i, j \in DOMAIN eid : i # j => eid[i] # eid[j]
                         /\ Range(eid) =
                                {i - 1 : i \in {h \in DOMAIN gr.edges[e] :
                                    gr.edges[e][h][end]
                                        \in Selected(hargs.nodes, gr.ntypes, endtype(e))}}
                         /\ \A j \in DOMAIN eid : sg.edges[e][j] = gr.edges[e][eid[j] + 1]

\* in_subgraph with a dict that names only "game": the edge into the selected
\* game is kept, the edge into a user is dropped.
C10_Witness ==
    /\ hop = "in_subgraph"
    /\ hret.raised = None
    /\ DOMAIN hargs.nodes.m = {"game"}
    /\ Len(hargs.g.edges[1]) = 2
    /\ Len(hret.value.edges[1]) = 1
    /\ hret.value.edata[1][EID] = <<1>>

------------------------------------------------------------------------------
(* partition_graph_with_halo.                                              *)

\* Bounds of the partition model: edges of the graph, largest partition ID,
\* largest hop count.
MaxPartEdges == 2
MaxPartId == 1
MaxHops == 2

RECURSIVE HaloReach(_, _, _)
\* The nodes reachable from a node of S along at most h edges.
HaloReach(es, S, h) ==
    IF h = 0 THEN S
    ELSE HaloReach(es, S \cup {es[i][2] : i \in {j \in DOMAIN es : es[j][1] \in S}}, h - 1)

\* The nodes assigned to partition p by the tensor node_part (entry v + 1 is
\* the partition ID of node v).
PartNodes(node_part, p) == {v \in 0 .. (Len(node_part) - 1) : node_part[v + 1] = p}

\* The halo subgraph of the inner nodes: the inner nodes and the nodes within
\* num_hops hops of them in increasing ID order, the edges of g among these
\* nodes in edge-ID order, the original IDs of both, and the inner flags.
HaloSubgraph(gr, inner, num_hops) ==
    LET nodes == SortedSeq(HaloReach(gr.edges, inner, num_hops))
        eids == SortedSeq({i \in DOMAIN gr.edges :
                              /\ gr.edges[i][1] \in Range(nodes)
                              /\ gr.edges[i][2] \in Range(nodes)})
    IN  [graph |-> [num_nodes |-> Len(nodes),
                    edges |-> [j \in DOMAIN eids |->
                                  <<IndexOf(nodes, gr.edges[eids[j]][1]),
                                    IndexOf(nodes, gr.edges[eids[j]][2])>>]],
         induced_nodes |-> nodes,
         induced_edges |-> [j \in DOMAIN eids |-> eids[j] - 1],
         inner_node |-> [j \in DOMAIN nodes |-> nodes[j] \in inner],
         inner_edge |-> [j \in DOMAIN eids |->
                            /\ gr.edges[eids[j]][1] \in inner
                            /\ gr.edges[eids[j]][2] \in inner]]

\* One halo subgraph per partition ID 0 .. max(node_part), in this order.
_CAPI_DGLPartitionWithHalo(gr, node_part, num_hops) ==
    LET num_parts == IF node_part = <<>> THEN 0
                     ELSE 1 + CHOOSE p \in Range(node_part) :
                                  \A q \in Range(node_part) : q <= p
    IN  [i \in 1 .. num_parts |-> HaloSubgraph(gr, PartNodes(node_part, i - 1), num_hops)]

_get_halo_subgraph_inner_node(subg) == subg.inner_node

_get_halo_subgraph_inner_edge(subg) == subg.inner_edge

\* g._create_subgraph(subg, induced_nodes, induced_edges): a subgraph of g that
\* knows the parent IDs of its nodes and edges and has no features yet.
_create_subgraph(gr, subg, induced_nodes, induced_edges) ==
    [num_nodes |-> subg.graph.num_nodes,
     edges |-> subg.graph.edges,
     parent_nid |-> induced_nodes,
     parent_eid |-> induced_edges,
     ndata |-> EmptyFrame,
     edata |-> EmptyFrame]

\* The subgraph stored in subg_dict for one element of subgs.
HaloPartition(gr, subg) ==
    LET inner_node == _get_halo_subgraph_inner_node(subg)
        inner_edge == _get_halo_subgraph_inner_edge(subg)
        sg == _create_subgraph(gr, subg, subg.induced_nodes, subg.induced_edges)
    IN  [sg EXCEPT !.ndata = SetCol(@, "inner_node", inner_node),
                   !.edata = SetCol(@, "inner_edge", inner_edge)]

\* partition_graph_with_halo with enumerate(subgs, 1): the keys start at 1.
partition_graph_with_halo_from_one(gr, node_part, num_hops) ==
    IF Len(node_part) # gr.num_nodes
    THEN [raised |-> "AssertionError", value |-> None]
    ELSE LET subgs == _CAPI_DGLPartitionWithHalo(gr, node_part, num_hops)
         IN  [raised |-> None,
              value |-> [i \in 1 .. Len(subgs) |-> HaloPartition(gr, subgs[i])]]

\* partition_graph_with_halo(g, node_part, num_hops): subg_dict, keyed by the
\* position i of enumerate(subgs).
partition_graph_with_halo(gr, node_part, num_hops) ==
    IF Len(node_part) # gr.num_nodes
    THEN [raised |-> "AssertionError", value |-> None]
    ELSE LET subgs == _CAPI_DGLPartitionWithHalo(gr, node_part, num_hops)
         IN  [raised |-> None,
              value |-> [i \in 0 .. (Len(subgs) - 1) |-> HaloPartition(gr, subgs[i + 1])]]

\* g.add_edges(u, v) by the caller of partition_graph_with_halo.
AddEdgePartition ==
    /\ op = "none"
    /\ Len(g.edges) < MaxPartEdges
    /\ \E u \in NodesOf(g), v \in NodesOf(g) : g' = add_edges(g, <<(<<u, v>>)>>)
    /\ frames' = add_rows(frames, g.edge_frame, 1)
    /\ UNCHANGED <<op, args, ret, hgs, hop, hargs, hret>>

\* The node_part tensors a caller passes: a partition ID per node, or a tensor
\* one entry too long.
NodeParts(gr) ==
    [1 .. gr.num_nodes -> 0 .. MaxPartId] \cup {[i \in 1 .. (gr.num_nodes + 1) |-> 0]}

PartitionGraphWithHalo ==
    /\ op = "none"
    /\ \E node_part \in NodeParts(g), num_hops \in 0 .. MaxHops :
          /\ args' = [g |-> g, node_part |-> node_part, num_hops |-> num_hops]
          /\ ret' = partition_graph_with_halo(g, node_part, num_hops)
    /\ op' = "partition_graph_with_halo"
    /\ UNCHANGED <<g, hgs, hop, hargs, hret, frames>>

PartitionNext == AddEdgePartition \/ PartitionGraphWithHalo

PartitionSpec == Init /\ [][PartitionNext]_vars

RECURSIVE WithinHops(_, _, _)
\* The nodes joined to a node of S by at most h edges, whatever their direction.
WithinHops(es, S, h) ==
    IF h = 0 THEN S
    ELSE WithinHops(es,
                    S \cup {es[i][2] : i \in {j \in DOMAIN es : es[j][1] \in S}}
                      \cup {es[i][1] : i \in {j \in DOMAIN es : es[j][2] \in S}},
                    h - 1)

\* The original IDs of the nodes flagged inner_node in a partition's subgraph.
InnerNodes(sg) ==
    {sg.parent_nid[j] : j \in {i \in DOMAIN sg.parent_nid : sg.ndata["inner_node"][i]}}

\* C11: partition_graph_with_halo returns one subgraph per partition, keyed by
\* partition ID; in the subgraph of partition p the inner nodes are exactly the
\* nodes assigned to p, every other node is within num_hops hops of an inner
\* node, every node and edge maps through its induced ID to a node or edge of g
\* (an edge to the edge between the mapped endpoints); so that each node of g is
\* an inner node of exactly one partition.
C11_HaloPartition ==
    (op = "partition_graph_with_halo" /\ ret.raised = None) =>
        LET gr == args.g
            part == args.node_part
        IN  /\ Range(part) \subseteq DOMAIN ret.value
            /\ \A p \in DOMAIN ret.value :
                  LET sg == ret.value[p]
                      nid == sg.parent_nid
                      eid == sg.parent_eid
                  IN  /\ p \in 0 .. MaxPartId
                      /\ "inner_node" \in DOMAIN sg.ndata
                      /\ DOMAIN sg.ndata["inner_node"] = DOMAIN nid
                      /\ Len(nid) = sg.num_nodes
                      /\ InnerNodes(sg) = PartNodes(part, p)
                      /\ \A i, j \in DOMAIN nid : i # j => nid[i] # nid[j]
                      /\ \A j \in DOMAIN nid :
                            /\ nid[j] \in NodesOf(gr)
                            /\ nid[j] \in WithinHops(gr.edges, PartNodes(part, p),
                                                     args.num_hops)
                      /\ Len(eid) = Len(sg.edges)
                      /\ \A i, j \in DOMAIN eid : i # j => eid[i] # eid[j]
                      /\ \A j \in DOMAIN eid :
                            /\ eid[j] + 1 \in DOMAIN gr.edges
                            /\ gr.edges[eid[j] + 1] =
                                  <<nid[sg.edges[j][1] + 1], nid[sg.edges[j][2] + 1]>>
            /\ \A v \in NodesOf(gr) :
                  Cardinality({p \in DOMAIN ret.value : v \in InnerNodes(ret.value[p])}) = 1

\* One hop on two partitions: one subgraph has an inner node, a halo node and
\* an edge; the other has only its inner node, under a new node ID.
C11_Witness ==
    /\ op = "partition_graph_with_halo"
    /\ ret.raised = None
    /\ args.num_hops = 1
    /\ DOMAIN ret.value = {0, 1}
    /\ \E p \in DOMAIN ret.value :
          /\ ret.value[p].num_nodes = 2
          /\ Cardinality(InnerNodes(ret.value[p])) = 1
          /\ Len(ret.value[p].edges) >= 1
    /\ \E p \in DOMAIN ret.value :
          /\ ret.value[p].num_nodes = 1
          /\ ret.value[p].parent_nid = <<1>>
          /\ Len(args.g.edges) > Len(ret.value[p].edges)

------------------------------------------------------------------------------
(* metapath_reachable_graph.                                               *)

\* Bound of the metapath model: the longest metapath.
MaxMetapathLen == 2

\* The edge type ID of an edge type name.
ETypeId(gr, etype) ==
    CHOOSE e \in DOMAIN gr.canonical_etypes : gr.canonical_etypes[e][2] = etype

\* g.to_canonical_etype(etype)
to_canonical_etype(gr, etype) == gr.canonical_etypes[ETypeId(gr, etype)]

\* g.adj(etype=etype, scipy_fmt='csr', transpose=...): with transpose=True a
\* row is the source and a column the destination, otherwise the other way
\* round; entry values add up over parallel edges.
adj(gr, etype, transpose) ==
    LET e == ETypeId(gr, etype)
        ns == gr.num_nodes[SrcType(gr, e)]
        nd == gr.num_nodes[DstType(gr, e)]
    IN  IF transpose
        THEN [scalar |-> FALSE, rows |-> ns, cols |-> nd,
              m |-> [u \in 0 .. (ns - 1) |->
                        [v \in 0 .. (nd - 1) |-> Count(gr.edges[e], <<u, v>>)]]]
        ELSE [scalar |-> FALSE, rows |-> nd, cols |-> ns,
              m |-> [v \in 0 .. (nd - 1) |->
                        [u \in 0 .. (ns - 1) |-> Count(gr.edges[e], <<u, v>>)]]]

\* adj = 1, the number the product starts from.
ScalarOne == [scalar |-> TRUE, rows |-> 0, cols |-> 0, m |-> <<>>]

\* adj * mat of scipy.sparse: the matrix product.  Called only when the
\* shapes agree.
SparseMul(A, B) ==
    [scalar |-> FALSE, rows |-> A.rows, cols |-> B.cols,
     m |-> [i \in 0 .. (A.rows - 1) |->
               [j \in 0 .. (B.cols - 1) |->
                   SumTo([l \in 0 .. (A.cols - 1) |-> A.m[i][l] * B.m[l][j]], A.cols)]]]

RECURSIVE MetapathProduct(_, _, _, _)
\* The loop "for etype in metapath: adj = adj * g.adj(...)" from step i on, with
\* acc the value of adj so far; 1 * mat is mat.  The product of two
\* matrices whose shapes do not agree raises ValueError.
MetapathProduct(gr, metapath, transpose, acc) ==
    IF metapath = <<>> THEN [raised |-> None, value |-> acc]
    ELSE LET mat == adj(gr, Head(metapath), transpose)
         IN  IF acc.scalar
             THEN MetapathProduct(gr, Tail(metapath), transpose, mat)
             ELSE IF acc.cols # mat.rows
             THEN [raised |-> "ValueError", value |-> None]
             ELSE MetapathProduct(gr, Tail(metapath), transpose, SparseMul(acc, mat))

\* (adj != 0).tocsr() as the graph constructors read it: the (row, col) pairs
\* of the nonzero entries, row by row.
NonZeroPairs(A) ==
    SortedPairs({p \in (0 .. (A.rows - 1)) \X (0 .. (A.cols - 1)) : A.m[p[1]][p[2]] # 0})

\* graph(adj, ntype=ntype): one node type with adj.shape[0] nodes and one edge
\* type, an edge (row, col) per nonzero entry.
graph(pairs, n, ntype) ==
    [ntypes |-> <<ntype>>,
     canonical_etypes |-> << <<ntype, "_E", ntype>> >>,
     num_nodes |-> <<n>>,
     edges |-> <<pairs>>,
     ndata |-> <<EmptyFrame>>,
     edata |-> <<EmptyFrame>>]

\* bipartite(adj, utype=utype, vtype=vtype): adj.shape[0] nodes of type utype,
\* adj.shape[1] nodes of type vtype, an edge (row, col) per nonzero entry.
bipartite(pairs, nu, nv, utype, vtype) ==
    [ntypes |-> <<utype, vtype>>,
     canonical_etypes |-> << <<utype, "_E", vtype>> >>,
     num_nodes |-> <<nu, nv>>,
     edges |-> <<pairs>>,
     ndata |-> <<EmptyFrame, EmptyFrame>>,
     edata |-> <<EmptyFrame>>]

\* for key, value in g.nodes[ntype].data.items():
\*     new_g.nodes[ntype].data[key] = value
CopyNodeData(new_g, gr, ntype) ==
    LET from == gr.ndata[NTypeId(gr, ntype)]
        t == NTypeId(new_g, ntype)
    IN  [new_g EXCEPT !.ndata[t] = [k \in (DOMAIN @) \cup (DOMAIN from) |->
                                       IF k \in DOMAIN from THEN from[k] ELSE @[k]]]

\* metapath_reachable_graph with the transpose flag of g.adj as a parameter.
\* An empty metapath leaves adj = 1, and (1 != 0) is a bool without tocsr.
MetapathReachable(gr, metapath, transpose) ==
    LET prod == MetapathProduct(gr, metapath, transpose, ScalarOne)
    IN  IF prod.raised # None THEN prod
        ELSE IF metapath = <<>> THEN [raised |-> "AttributeError", value |-> None]
        ELSE LET a == prod.value
                 srctype == to_canonical_etype(gr, metapath[1])[1]
                 dsttype == to_canonical_etype(gr, metapath[Len(metapath)])[3]
             IN  IF srctype = dsttype
                 THEN IF a.rows # a.cols
                      THEN [raised |-> "AssertionError", value |-> None]
                      ELSE [raised |-> None,
                            value |-> CopyNodeData(graph(NonZeroPairs(a), a.rows, srctype),
                                                   gr, srctype)]
                 ELSE [raised |-> None,
                       value |-> CopyNodeData(
                                     CopyNodeData(bipartite(NonZeroPairs(a), a.rows, a.cols,
                                                            srctype, dsttype),
                                                  gr, srctype),
                                     gr, dsttype)]

\* metapath_reachable_graph that asks g.adj for transpose=False.
metapath_reachable_graph_untransposed(gr, metapath) == MetapathReachable(gr, metapath, FALSE)

metapath_reachable_graph(gr, metapath) == MetapathReachable(gr, metapath, TRUE)

\* The heterograph the caller starts from: a feature 'h' on every node type.
FeaturedHeteroGraph ==
    [EmptyHeteroGraph EXCEPT
        !.ndata = [t \in DOMAIN NTypes |->
                      SetCol(EmptyFrame, "h", [i \in 1 .. HNumNodes |-> <<NTypes[t], i - 1>>])]]

MetapathInit ==
    /\ hgs = <<FeaturedHeteroGraph>>
    /\ hop = "none"
    /\ hargs = None
    /\ hret = None
    /\ NoDGLGraph

RECURSIVE SeqsUpTo(_, _)
\* The sequences over S of length at most m.
SeqsUpTo(S, m) ==
    IF m = 0 THEN {<<>>}
    ELSE LET shorter == SeqsUpTo(S, m - 1)
         IN  shorter \cup {Append(q, x) : q \in shorter, x \in S}

\* The metapaths a caller passes: lists of edge type names of g.
Metapaths(gr) ==
    SeqsUpTo({gr.canonical_etypes[e][2] : e \in DOMAIN gr.canonical_etypes}, MaxMetapathLen)

MetapathReachableGraph ==
    /\ hop = "none"
    /\ Len(hgs) = 1
    /\ \E metapath \in Metapaths(hgs[1]) :
          /\ hargs' = [g |-> hgs[1], metapath |-> metapath]
          /\ hret' = metapath_reachable_graph(hgs[1], metapath)
    /\ hop' = "metapath_reachable_graph"
    /\ UNCHANGED <<hgs, g, op, args, ret, frames>>

MetapathNext == AddEdgeHetero \/ MetapathReachableGraph

MetapathSpec == MetapathInit /\ [][MetapathNext]_vars

\* The destination type of each step is the source type of the next.
Chains(gr, metapath) ==
    \A i \in 1 .. (Len(metapath) - 1) :
        to_canonical_etype(gr, metapath[i])[3] = to_canonical_etype(gr, metapath[i + 1])[1]

RECURSIVE PathCount(_, _, _, _)
\* The number of paths of g from u to v that follow the metapath's edge types
\* in order, one edge per step.
PathCount(gr, metapath, u, v) ==
    IF metapath = <<>> THEN (IF u = v THEN 1 ELSE 0)
    ELSE LET es == gr.edges[ETypeId(gr, Head(metapath))]
         IN  SumTo([i \in 0 .. (Len(es) - 1) |->
                       IF es[i + 1][1] = u
                       THEN PathCount(gr, Tail(metapath), es[i + 1][2], v) ELSE 0],
                   Len(es))

\* C12: for a chaining metapath from node type s to node type t,
\* metapath_reachable_graph(g, metapath) has exactly one edge u -> v when g has
\* at least one path from u to v along the metapath, whatever their number, and
\* none otherwise; it has all nodes of g of types s and t; it has the single
\* node type s when s = t and is a bipartite graph from s to t otherwise.
C12_MetapathReachable ==
    (/\ hop = "metapath_reachable_graph"
     /\ hargs.metapath # <<>>
     /\ Chains(hargs.g, hargs.metapath)) =>
        LET gr == hargs.g
            mp == hargs.metapath
            s == to_canonical_etype(gr, mp[1])[1]
            t == to_canonical_etype(gr, mp[Len(mp)])[3]
            ns == gr.num_nodes[NTypeId(gr, s)]
            nt == gr.num_nodes[NTypeId(gr, t)]
        IN  /\ hret.raised = None
            /\ Len(hret.value.canonical_etypes) = 1
            /\ hret.value.canonical_etypes[1][1] = s
            /\ hret.value.canonical_etypes[1][3] = t
            /\ IF s = t
               THEN /\ hret.value.ntypes = <<s>>
                    /\ hret.value.num_nodes = <<ns>>
               ELSE /\ hret.value.ntypes = <<s, t>>
                    /\ hret.value.num_nodes = <<ns, nt>>
            /\ \A p \in Range(hret.value.edges[1]) :
                  p[1] \in 0 .. (ns - 1) /\ p[2] \in 0 .. (nt - 1)
            /\ \A u \in 0 .. (ns - 1), v \in 0 .. (nt - 1) :
                  Count(hret.value.edges[1], <<u, v>>) =
                      (IF PathCount(gr, mp, u, v) >= 1 THEN 1 ELSE 0)

\* The metapath (plays) on a g with two parallel edges u -> v: two paths, one
\* edge in the bipartite result, which keeps the users and games without edge.
C12_Witness ==
    /\ hop = "metapath_reachable_graph"
    /\ hret.raised = None
    /\ hargs.metapath = <<"plays">>
    /\ hret.value.ntypes = <<"user", "game">>
    /\ \E u \in NodeIds, v \in NodeIds :
          /\ PathCount(hargs.g, hargs.metapath, u, v) = 2
          /\ hret.value.edges[1] = <<(<<u, v>>)>>
    /\ hret.value.num_nodes = <<HNumNodes, HNumNodes>>

------------------------------------------------------------------------------
(* Rejected arguments of compact_graphs, in_subgraph and out_subgraph.     *)

\* A heterograph over the same nodes that lists its node types in the other
\* order.
ReorderedHeteroGraph == [EmptyHeteroGraph EXCEPT !.ntypes = <<"game", "user">>]

\* The caller starts another graph, one that lists the node types in the other
\* order.
NewGraphReordered ==
    /\ hop = "none"
    /\ Len(hgs) < MaxGraphs
    /\ hgs' = Append(hgs, ReorderedHeteroGraph)
    /\ UNCHANGED <<hop, hargs, hret, g, op, args, ret, frames>>

RejectNext ==
    \/ AddEdgeHetero
    \/ NewGraphReordered
    \/ CompactGraphs
    \/ InSubgraph
    \/ OutSubgraph

RejectSpec == HInit /\ [][RejectNext]_vars

\* The exceptions that report an invalid argument to the caller.
InvalidArgument == {"DGLError", "AssertionError", "ValueError"}

\* The arguments of the call are among those the transforms reject.
RejectedArguments ==
    \/ /\ hop = "compact_graphs"
       /\ \/ \E i \in DOMAIN hargs.graphs : hargs.graphs[i].ntypes # hargs.graphs[1].ntypes
          \/ /\ hargs.always_preserve.kind = "tensor"
             /\ Len(hargs.graphs[1].ntypes) > 1
    \/ /\ hop \in {"in_subgraph", "out_subgraph"}
       /\ ~hargs.nodes.dict
       /\ Len(hargs.g.ntypes) > 1

\* The graphs given to the call, as a list.
InputGraphs == IF hop = "compact_graphs" THEN hargs.graphs ELSE <<hargs.g>>

\* C13: when compact_graphs, in_subgraph or out_subgraph is given graphs that
\* do not list the same node types in the same order, or a bare node-ID array
\* for a graph with more than one node type, it raises an invalid-argument
\* error, returns no graph, and every input graph is as it was before the call.
C13_RejectsWithInvalidArgument ==
    RejectedArguments =>
        /\ hret.raised \in InvalidArgument
        /\ hret.value = None
        /\ hgs = InputGraphs

\* What the code does on rejected arguments: it raises some exception, returns
\* no graph and leaves the input graphs as they were.
RejectsBeforeAnyOutput ==
    RejectedArguments =>
        /\ hret.raised # None
        /\ hret.value = None
        /\ hgs = InputGraphs

------------------------------------------------------------------------------
(* khop_adj.                                                               *)

\* Bounds of the khop_adj model: the edges the caller adds one by one, the
\* parallel edges it adds in one call of add_edges, the largest second exponent.
MaxAdjEdges == 2
MaxParallel == 11
MaxAdjK == 7

RECURSIVE Float32Spacing(_, _)
\* The distance q (a power of two) between the float32 values around x: the
\* least q with x < 2^24 * q.
Float32Spacing(x, q) == IF x \div q < 16777216 THEN q ELSE Float32Spacing(x, 2 * q)

\* astype(np.float32) of a non-negative integer: x itself below 2^24, above it
\* the nearest multiple of the spacing, a tie going to the even multiple.
Float32(x) ==
    LET q == Float32Spacing(x, 1)
        lo == (x \div q) * q
        r == x - lo
    IN  IF 2 * r < q THEN lo
        ELSE IF 2 * r > q THEN lo + q
        ELSE IF (x \div q) % 2 = 0 THEN lo ELSE lo + q

RECURSIVE IntPow(_, _)
IntPow(x, k) == IF k = 0 THEN 1 ELSE x * IntPow(x, k - 1)

\* khop_adj with the power taken entry by entry, as ** does on a dense array.
khop_adj_elementwise(gr, k) ==
    LET n == gr.num_nodes
        A == adjacency_matrix_scipy(gr)
    IN  [i \in 0 .. (n - 1) |-> [j \in 0 .. (n - 1) |-> Float32(IntPow(A[i][j], k))]]

\* khop_adj(g, k): the dense float32 tensor of adjacency_matrix_scipy ** k.
khop_adj(gr, k) ==
    LET n == gr.num_nodes
    IN  CHOOSE T \in {[i \in 0 .. (n - 1) |-> [j \in 0 .. (n - 1) |-> Float32(adj_k[i][j])]] :
                      adj_k \in {M \in {MatPow(adjacency_matrix_scipy(gr), k, n)} : M = M}} :
            TRUE

\* g.add_edges(u, v) by the caller of khop_adj.
AddEdgeAdj ==
    /\ op = "none"
    /\ Len(g.edges) < MaxAdjEdges
    /\ \E u \in NodesOf(g), v \in NodesOf(g) : g' = add_edges(g, <<(<<u, v>>)>>)
    /\ frames' = add_rows(frames, g.edge_frame, 1)
    /\ UNCHANGED <<op, args, ret, hgs, hop, hargs, hret>>

\* g.add_edges([u] * m, [v] * m) by the caller on a graph without edges: m
\* parallel edges at once.
AddParallelEdges ==
    /\ op = "none"
    /\ g.edges = <<>>
    /\ \E u \in NodesOf(g), v \in NodesOf(g) :
          g' = add_edges(g, Repeat(<<u, v>>, MaxParallel))
    /\ frames' = add_rows(frames, g.edge_frame, MaxParallel)
    /\ UNCHANGED <<op, args, ret, hgs, hop, hargs, hret>>

RECURSIVE PowerFits(_, _, _)
\* m^k <= limit, computed without forming m^k.
PowerFits(m, k, limit) ==
    IF k = 0 \/ m = 0 THEN TRUE
    ELSE IF limit < m THEN FALSE
    ELSE PowerFits(m, k - 1, limit \div m)

\* The caller computes khop_adj(g, k1), khop_adj(g, k2) and khop_adj(g, k1 + k2),
\* for exponents whose walk counts (at most Len(g.edges)^(k1 + k2)) stay below
\* 2^30.
KhopAdj ==
    /\ op = "none"
    /\ \E k1 \in 0 .. MaxK, k2 \in 0 .. MaxAdjK :
          /\ PowerFits(Len(g.edges), k1 + k2, 1073741824)
          /\ args' = [g |-> g, k1 |-> k1, k2 |-> k2]
          /\ ret' = [k1 |-> khop_adj(g, k1), k2 |-> khop_adj(g, k2),
                     sum |-> khop_adj(g, k1 + k2)]
    /\ op' = "khop_adj"
    /\ UNCHANGED <<g, hgs, hop, hargs, hret, frames>>

AdjNext == AddEdgeAdj \/ AddParallelEdges \/ KhopAdj

AdjSpec == Init /\ [][AdjNext]_vars

\* A @ B of two n x n float32 tensors.
TensorMatMul(A, B, n) ==
    [i \in 0 .. (n - 1) |->
        [j \in 0 .. (n - 1) |->
            Float32(SumTo([l \in 0 .. (n - 1) |-> A[i][l] * B[l][j]], n))]]

\* C14: khop_adj(g, k1 + k2) is the matrix product khop_adj(g, k1) @
\* khop_adj(g, k2); khop_adj(g, 0) is the identity matrix; entry (i, j) of
\* khop_adj(g, 1) is the number of edges j -> i.
C14_KhopAdjAlgebra ==
    op = "khop_adj" =>
        LET n == args.g.num_nodes
        IN  /\ ret.sum = TensorMatMul(ret.k1, ret.k2, n)
            /\ args.k1 = 0 =>
                  \A i \in NodesOf(args.g), j \in NodesOf(args.g) :
                      ret.k1[i][j] = (IF i = j THEN 1 ELSE 0)
            /\ args.k1 = 1 =>
                  \A i \in NodesOf(args.g), j \in NodesOf(args.g) :
                      ret.k1[i][j] = Cardinality({e \in DOMAIN args.g.edges :
                                                     args.g.edges[e] = <<j, i>>})

\* Every entry of the three matrices is below 2^24, where float32 holds every
\* integer exactly.
ExactInFloat32 ==
    \A M \in {ret.k1, ret.k2, ret.sum} :
        \A i \in NodesOf(args.g), j \in NodesOf(args.g) : M[i][j] < 16777216

\* C14 as amended: the three statements of C14 hold whenever every entry of the
\* three matrices is below 2^24, the integers float32 represents exactly.
C14_KhopAdjAlgebraExact ==
    (op = "khop_adj" /\ ExactInFloat32) =>
        LET n == args.g.num_nodes
        IN  /\ ret.sum = TensorMatMul(ret.k1, ret.k2, n)
            /\ args.k1 = 0 =>
                  \A i \in NodesOf(args.g), j \in NodesOf(args.g) :
                      ret.k1[i][j] = (IF i = j THEN 1 ELSE 0)
            /\ args.k1 = 1 =>
                  \A i \in NodesOf(args.g), j \in NodesOf(args.g) :
                      ret.k1[i][j] = Cardinality({e \in DOMAIN args.g.edges :
                                                     args.g.edges[e] = <<j, i>>})

\* k1 = 1 and k2 = 2 on a two-node graph with a self-loop 0 -> 0 and an edge
\* 0 -> 1: the third power has entry 1 in row 1, column 0 and 0 in row 0,
\* column 1.
C14_Witness ==
    /\ op = "khop_adj"
    /\ ExactInFloat32
    /\ args.k1 = 1
    /\ args.k2 = 2
    /\ args.g.num_nodes = 2
    /\ ret.k1[1][0] = 1
    /\ ret.sum[1][0] = 1
    /\ ret.sum[0][1] = 0

------------------------------------------------------------------------------
(* A graph and its reverse, edited after the call.                         *)
(*                                                                         *)
(* reverse hands out a second DGLGraph with a graph index of its own and,  *)
(* per share flag, the very frames of g.  Afterwards the caller adds nodes *)
(* and edges to either graph and writes the feature 'h' through either     *)
(* graph.  The methods of DGLGraph used here are not part of transform.py. *)

MaxRevEdges == 1
MaxEdits == 2

\* The graph the caller edits: g itself, or the graph reverse returned.
Via == {"g", "rg"}
TheGraph(via) == IF via = "g" THEN g ELSE ret

\* The frame behind gr.ndata (kind "n") or gr.edata (kind "e"), and the number
\* of rows a feature of that kind has in gr.
FrameOf(gr, kind) == IF kind = "n" THEN gr.node_frame ELSE gr.edge_frame
RowsOf(gr, kind) == IF kind = "n" THEN gr.num_nodes ELSE Len(gr.edges)

\* gr.ndata['h'] = data, gr.edata['h'] = data: the column 'h' of the frame
\* behind the graph is replaced.
set_repr(fr, gr, kind, data) ==
    [fr EXCEPT ![FrameOf(gr, kind)].cols = SetCol(@, "h", data)]

\* What the caller writes: one value per node or edge of the graph written
\* through, 1 through g and 2 through the reverse.
FeatureData(via, kind) == Repeat(IF via = "g" THEN 1 ELSE 2, RowsOf(TheGraph(via), kind))

AfterReverse == op \in {"reverse", "add_nodes", "add_edges", "set_n_repr", "set_e_repr"}

\* How many edits followed the call of reverse, and the record of one more.
Edits == IF "edits" \in DOMAIN args THEN args.edits ELSE 0
Edited(via) ==
    [g |-> args.g, share_ndata |-> args.share_ndata, share_edata |-> args.share_edata,
     via |-> via, edits |-> Edits + 1]

AddEdgeReverse ==
    /\ op = "none"
    /\ Len(g.edges) < MaxRevEdges
    /\ \E u \in NodesOf(g), v \in NodesOf(g) : g' = add_edges(g, <<(<<u, v>>)>>)
    /\ frames' = add_rows(frames, g.edge_frame, 1)
    /\ UNCHANGED <<op, args, ret, hgs, hop, hargs, hret>>

\* g.ndata['h'] = data or g.edata['h'] = data before reverse is called; after
\* it, the same through g or through the reverse.  The data has one row per
\* node (edge) of the graph written through, at least one, and the write is
\* modelled where the frame has as many rows.
SetFeature ==
    \E kind \in {"n", "e"} :
       \/ /\ op = "none"
          /\ RowsOf(g, kind) > 0
          /\ frames' = set_repr(frames, g, kind, FeatureData("g", kind))
          /\ UNCHANGED <<g, op, args, ret, hgs, hop, hargs, hret>>
       \/ /\ AfterReverse
          /\ Edits < MaxEdits
          /\ \E via \in Via :
                /\ RowsOf(TheGraph(via), kind) > 0
                /\ frames[FrameOf(TheGraph(via), kind)].num_rows = RowsOf(TheGraph(via), kind)
                /\ frames' = set_repr(frames, TheGraph(via), kind, FeatureData(via, kind))
                /\ args' = Edited(via)
          /\ op' = IF kind = "n" THEN "set_n_repr" ELSE "set_e_repr"
          /\ UNCHANGED <<g, ret, hgs, hop, hargs, hret>>

\* g.add_nodes(1) or rg.add_nodes(1) after reverse: one more node in that
\* graph's index and one more row in the frame behind its ndata.
AddNodes ==
    /\ AfterReverse
    /\ Edits < MaxEdits
    /\ \E via \in Via :
          /\ IF via = "g" THEN g' = add_nodes(g, 1) /\ ret' = ret
             ELSE ret' = add_nodes(ret, 1) /\ g' = g
          /\ frames' = add_rows(frames, TheGraph(via).node_frame, 1)
          /\ args' = Edited(via)
    /\ op' = "add_nodes"
    /\ UNCHANGED <<hgs, hop, hargs, hret>>

\* g.add_edges(u, 0) or rg.add_edges(u, 0) after reverse, u the newest node
\* of that graph: one more edge in that graph's index and one more row in the
\* frame behind its edata.
AddEdges ==
    /\ AfterReverse
    /\ Edits < MaxEdits
    /\ \E via \in Via :
          /\ TheGraph(via).num_nodes > 0
          /\ LET uv == <<TheGraph(via).num_nodes - 1, 0>>
             IN  IF via = "g" THEN g' = add_edges(g, <<uv>>) /\ ret' = ret
                 ELSE ret' = add_edges(ret, <<uv>>) /\ g' = g
          /\ frames' = add_rows(frames, TheGraph(via).edge_frame, 1)
          /\ args' = Edited(via)
    /\ op' = "add_edges"
    /\ UNCHANGED <<hgs, hop, hargs, hret>>

ReverseNext ==
    \/ AddEdgeReverse
    \/ SetFeature
    \/ Reverse
    \/ AddNodes
    \/ AddEdges

ReverseSpec == Init /\ [][ReverseNext]_vars

\* Whether the graph shows a feature 'h' of one kind, and the column it shows
\* (no rows where it shows none).
HasFeature(fr, gr, kind) == "h" \in DOMAIN fr[FrameOf(gr, kind)].cols
Feature(fr, gr, kind) ==
    IF HasFeature(fr, gr, kind) THEN fr[FrameOf(gr, kind)].cols["h"] ELSE <<>>

\* The graph shows the feature 'h' with exactly this column.
Shows(fr, gr, kind, data) == HasFeature(fr, gr, kind) /\ Feature(fr, gr, kind) = data

ShareFlag(a, kind) == IF kind = "n" THEN a.share_ndata ELSE a.share_edata

\* C16: after rg = reverse(g, share_ndata, share_edata), in every later step:
\* a feature written through g shows through rg exactly when the share flag
\* of its kind was True, and with the flag False rg starts without features
\* of that kind; adding nodes or edges to g leaves rg's node count and edge
\* list alone, and adding them to rg leaves g's alone.
C16_SharedFeaturesIndependentTopology ==
    [][/\ op' = "reverse" =>
             \A kind \in {"n", "e"} :
                IF ShareFlag(args', kind)
                THEN /\ HasFeature(frames', ret', kind) <=> HasFeature(frames', g', kind)
                     /\ Feature(frames', ret', kind) = Feature(frames', g', kind)
                ELSE ~HasFeature(frames', ret', kind)
       /\ (op' \in {"set_n_repr", "set_e_repr"} /\ args'.via = "g") =>
             LET kind == IF op' = "set_n_repr" THEN "n" ELSE "e"
             IN  /\ Shows(frames', g', kind, FeatureData("g", kind))
                 /\ Shows(frames', ret', kind, FeatureData("g", kind))
                        <=> ShareFlag(args', kind)
       /\ (op' \in {"add_nodes", "add_edges"} /\ args'.via = "g") =>
             ret'.num_nodes = ret.num_nodes /\ ret'.edges = ret.edges
       /\ (op' \in {"add_nodes", "add_edges"} /\ args'.via = "rg") =>
             g'.num_nodes = g.num_nodes /\ g'.edges = g.edges]_vars

\* The edge features are shared, 'h' was written through g and shows through
\* rg, and after an edge was added to g alone the shared table has more rows
\* than rg has edges.
C16_Witness ==
    /\ op = "add_edges"
    /\ args.via = "g"
    /\ args.share_edata
    /\ ret.edge_frame = g.edge_frame
    /\ Shows(frames, ret, "e", <<1, 0>>)
    /\ frames[ret.edge_frame].num_rows = 2
    /\ Len(ret.edges) = 1
    /\ Len(g.edges) = 2

------------------------------------------------------------------------------
(* Every transform, called on a graph the caller built.                    *)

\* A DGLGraph without features, or a heterograph with a node feature.
TransformInit == Init \/ MetapathInit

\* The DGLGraph transforms where the caller built a DGLGraph, the heterograph
\* transforms where the caller built a heterograph.
TransformNext ==
    \/ /\ hgs = <<>>
       /\ \/ AddEdge
          \/ KhopGraph
          \/ Reverse
          \/ ToBidirected
          \/ AddSelfLoop
          \/ RemoveSelfLoop
    \/ /\ hgs # <<>>
       /\ \/ AddEdgeHetero
          \/ ToSimple
          \/ InSubgraph
          \/ OutSubgraph
          \/ CompactGraphs
          \/ MetapathReachableGraph

TransformSpec == TransformInit /\ [][TransformNext]_vars

\* This step is the call of a transform.
TransformCalled == op' # op \/ hop' # hop

\* The DGLGraph the caller holds and every feature table that existed before
\* the step are as they were.
DGLGraphInputUnchanged ==
    /\ g' = g
    /\ \A f \in DOMAIN frames : f \in DOMAIN frames' /\ frames'[f] = frames[f]

\* The DGLGraph returned is a new object: its feature tables did not exist
\* before the call, except those reverse was told to share.
ResultIsNew ==
    op' # op =>
        /\ ret'.node_frame \in DOMAIN frames <=> (op' = "reverse" /\ args'.share_ndata)
        /\ ret'.edge_frame \in DOMAIN frames <=> (op' = "reverse" /\ args'.share_edata)

\* after is before with, in the edge feature table of every edge type, the
\* column name holding for each edge the ID of the edge of result with the
\* same endpoints, and nothing else changed.
WrittenBack(before, after, name, result) ==
    /\ [after EXCEPT !.edata = before.edata] = before
    /\ \A e \in DOMAIN before.edata :
          /\ DOMAIN after.edata[e] = (DOMAIN before.edata[e]) \cup {name}
          /\ \A k \in (DOMAIN before.edata[e]) \ {name} :
                after.edata[e][k] = before.edata[e][k]
          /\ Len(after.edata[e][name]) = Len(before.edges[e])
          /\ \A i \in DOMAIN before.edges[e] :
                /\ after.edata[e][name][i] \in 0 .. (Len(result.edges[e]) - 1)
                /\ result.edges[e][after.edata[e][name][i] + 1] = before.edges[e][i]

\* C15 as stated: no call of reverse, add_self_loop, remove_self_loop,
\* khop_graph, to_bidirected, to_simple, compact_graphs, in_subgraph,
\* out_subgraph or metapath_reachable_graph, whatever its arguments, changes
\* the nodes, the edges in edge-ID order or the node and edge feature tables
\* of an input graph, and the result is a new graph object.
C15_NoTransformChangesInput ==
    [][TransformCalled =>
          /\ DGLGraphInputUnchanged
          /\ ResultIsNew
          /\ hgs' = hgs]_vars

\* C15, amended: the same, except that to_simple with writeback_mapping set
\* adds (or overwrites) the column of that name in the edge feature table of
\* every edge type of its input, holding the edge map; the nodes, the edges
\* and every other column of the input stay as they were.
C15_OnlyWritebackChangesInput ==
    [][TransformCalled =>
          /\ DGLGraphInputUnchanged
          /\ ResultIsNew
          /\ IF hop' = "to_simple" /\ hargs'.writeback_mapping # None
             THEN /\ Len(hgs') = 1
                  /\ WrittenBack(hgs[1], hgs'[1], hargs'.writeback_mapping, hret'.value)
             ELSE hgs' = hgs]_vars

\* to_simple was called with writeback_mapping='new_eid' on a graph with two
\* parallel edges and a node feature: the input now has the edge map in its
\* edge feature table and is otherwise as passed.
C15_Witness ==
    /\ hop = "to_simple"
    /\ hargs.writeback_mapping = "new_eid"
    /\ hargs.g.edges[1] = << <<0, 1>>, <<0, 1>> >>
    /\ "new_eid" \notin DOMAIN hargs.g.edata[1]
    /\ hgs[1].edata[1]["new_eid"] = <<0, 0>>
    /\ hgs[1].edges = hargs.g.edges
    /\ hgs[1].ndata = hargs.g.ndata
    /\ "h" \in DOMAIN hgs[1].ndata[1]

==============================================================================
